---- MODULE Spec2Model ----
(***************************************************************************)
(* Model of the Call Orchestrator (app/managers/openfabric_manager.py) and *)
(* of the Generation Store (app/managers/memory_manager.py).               *)
(*                                                                         *)
(* The two components share no state.  SpecCall drives the orchestrator,   *)
(* the Store specifications drive the store; each leaves the other         *)
(* component's variables untouched.                                        *)
(***************************************************************************)
EXTENDS Integers, Sequences, FiniteSets, TLC

VARIABLES
    \* ---- Call Orchestrator ----
    pc,         \* "idle" | "retry" (inside the loop of _call_with_retry) | "done"
    op,         \* the public operation running: "generate_image" | "convert_to_3d"
    attempt,    \* the loop variable of _call_with_retry
    calls,      \* kinds of the outcomes of the stub.call invocations issued so far
    delays,     \* number of time.sleep(retry_delay) performed so far
    last,       \* outcome of the latest stub.call
    wrapped,    \* value returned by _call_with_retry
    ret,        \* value returned by the public operation
    raised,     \* TRUE iff the public operation let an exception reach its caller
    \* ---- Generation Store ----
    rows,       \* the rows of table generations
    seq,        \* sqlite_sequence.seq of the table: the largest id ever assigned
    now,        \* CURRENT_TIMESTAMP, in whole seconds
    files,      \* the blob files that exist
    returned,   \* the ids returned by the successful saves, oldest first
    sop,        \* the latest store operation
    sarg,       \* its argument
    sret,       \* its return value
    sfault,     \* the storage failure it met: "none" when it met none
    sraised,    \* TRUE iff it let an exception reach its caller
    before,     \* the rows and the files as they were when it started
    step        \* where a delete or clear that is followed statement by
                \* statement stands, and what it has attempted so far

callVars == <<pc, op, attempt, calls, delays, last, wrapped, ret, raised>>

storeVars ==
    <<rows, seq, now, files, returned, sop, sarg, sret, sfault, sraised, before, step>>

vars == <<callVars, storeVars>>

(***************************************************************************)
(* Python values.  A value is a record [t, d, b]: t its type, d its items  *)
(* when it is a dict, b its content when it is a bytes/str object.         *)
(***************************************************************************)
EmptyDict == [k \in {} |-> 0]

PyNone == [t |-> "None", d |-> EmptyDict, b |-> ""]

PyBytes(s) == [t |-> "bytes", d |-> EmptyDict, b |-> s]

PyStr(s) == [t |-> "str", d |-> EmptyDict, b |-> s]

PyDict(f) == [t |-> "dict", d |-> f, b |-> ""]

\* Python truthiness, as tested by "if response:".
Truthy(v) ==
    \/ v.t = "dict" /\ DOMAIN v.d # {}
    \/ v.t \in {"bytes", "str"} /\ v.b # ""

IsDict(v) == v.t = "dict"

\* The keys an upstream response object may carry, and the values of a key.
ResponseKeys == {"result", "generated_object", "video_object", "status"}

FieldValues == {PyNone, PyBytes(""), PyBytes("data")}

ResponseDicts ==
    UNION {[K -> FieldValues] : K \in SUBSET ResponseKeys}

\* Everything stub.call may return.
Responses ==
    {PyNone, PyBytes(""), PyStr("ok")} \cup {PyDict(f) : f \in ResponseDicts}

\* One invocation of stub.call: it returns a value, raises an exception whose
\* text contains "Resource not found", or raises any other exception.
Outcomes ==
    {[kind |-> "return", value |-> v] : v \in Responses}
        \cup {[kind |-> "not_ready", value |-> PyNone],
              [kind |-> "error", value |-> PyNone]}

NoOutcome == [kind |-> "none", value |-> PyNone]

Kind(o) ==
    IF o.kind = "return"
    THEN (IF Truthy(o.value) THEN "truthy" ELSE "falsy")
    ELSE o.kind

\* Arguments handed to convert_to_3d as image_data.
ImageInputs == {PyBytes("png"), PyBytes(""), PyNone, PyStr("path")}

max_retries == 3

retry_delay == 2

(***************************************************************************)
(* _call_with_retry                                                        *)
(***************************************************************************)
\* Mutant: the "attempt < max_retries - 1" test is missing.
IterationResult_NoLastCheck(a, o) ==
    IF o.kind = "return"
    THEN [exit |-> Truthy(o.value), value |-> o.value, slept |-> FALSE]
    ELSE [exit |-> FALSE, value |-> PyNone, slept |-> o.kind = "not_ready"]

\* Mutant: a not-ready failure is not retried: the wrapper gives up at once.
IterationResult_NoRetry(a, o) ==
    IF o.kind = "return"
    THEN [exit |-> Truthy(o.value), value |-> o.value, slept |-> FALSE]
    ELSE [exit |-> o.kind = "not_ready", value |-> PyNone, slept |-> FALSE]

\* One iteration of the loop, with loop variable a and stub outcome o:
\* exit  - the iteration executes "return response";
\* slept - the iteration executes time.sleep(retry_delay).
\* An iteration that does not return falls through to the next one, whether it
\* ended by "continue", after logging.error, or with a falsy response.
IterationResult(a, o) ==
    IF o.kind = "return"
    THEN [exit |-> Truthy(o.value), value |-> o.value, slept |-> FALSE]
    ELSE [exit |-> FALSE, value |-> PyNone,
          slept |-> o.kind = "not_ready" /\ a < max_retries - 1]

(***************************************************************************)
(* Response normalisation of the two public operations                     *)
(***************************************************************************)
\* Mutant: the field is read with "if response.get('result')".
GenerateImageResult_TruthyField(response) ==
    IF IsDict(response) /\ "result" \in DOMAIN response.d
          /\ Truthy(response.d["result"])
    THEN response.d["result"]
    ELSE PyNone

GenerateImageResult(response) ==
    IF IsDict(response) /\ "result" \in DOMAIN response.d
    THEN response.d["result"]
    ELSE PyNone

ResultMap(response) ==
    LET keys == {k \in {"model", "video"} :
                    \/ k = "model" /\ "generated_object" \in DOMAIN response.d
                    \/ k = "video" /\ "video_object" \in DOMAIN response.d}
    IN [k \in keys |-> IF k = "model" THEN response.d["generated_object"]
                                      ELSE response.d["video_object"]]

\* Mutant: a response without a model counts as invalid.
ConvertTo3DResult_ModelRequired(response) ==
    IF Truthy(response) /\ IsDict(response)
          /\ "generated_object" \in DOMAIN response.d
    THEN PyDict(ResultMap(response))
    ELSE PyNone

ConvertTo3DResult(response) ==
    IF Truthy(response) /\ IsDict(response)
    THEN PyDict(ResultMap(response))
    ELSE PyNone

Normalize(o, response) ==
    IF o = "generate_image" THEN GenerateImageResult(response)
                            ELSE ConvertTo3DResult(response)

\* base64.b64encode(image_data) raises TypeError unless image_data is bytes.
B64EncodeRaises(image_data) == image_data.t # "bytes"

\* Mutant: the handler re-raises.
ExceptHandler_Reraise == [ret |-> PyNone, raised |-> TRUE]

\* "except Exception as e: logging.error(...); return None"
ExceptHandler == [ret |-> PyNone, raised |-> FALSE]

(***************************************************************************)
(* Actions of the orchestrator                                             *)
(***************************************************************************)
\* MemoryManager.__init__ on a fresh database file: the table is created empty.
InitStore ==
    /\ rows = {}
    /\ seq = 0
    /\ now = 1
    /\ files = {}
    /\ returned = <<>>
    /\ sop = "init"
    /\ sarg = <<>>
    /\ sret = <<>>
    /\ sfault = "none"
    /\ sraised = FALSE
    /\ before = [rows |-> {}, files |-> {}]
    /\ step = [pc |-> "idle", queue |-> <<>>, attempted |-> {}]

InitCall ==
    /\ pc = "idle"
    /\ op = "none"
    /\ attempt = 0
    /\ calls = <<>>
    /\ delays = 0
    /\ last = NoOutcome
    /\ wrapped = PyNone
    /\ ret = PyNone
    /\ raised = FALSE

Init == InitCall /\ InitStore

EnterRetry(o) ==
    /\ pc' = "retry"
    /\ op' = o
    /\ UNCHANGED <<attempt, calls, delays, last, wrapped, ret, raised>>
    /\ UNCHANGED storeVars

generate_image ==
    /\ pc = "idle"
    /\ EnterRetry("generate_image")

convert_to_3d(image_data) ==
    /\ pc = "idle"
    /\ IF B64EncodeRaises(image_data)
       THEN /\ pc' = "done"
            /\ op' = "convert_to_3d"
            /\ ret' = ExceptHandler.ret
            /\ raised' = ExceptHandler.raised
            /\ UNCHANGED <<attempt, calls, delays, last, wrapped>>
            /\ UNCHANGED storeVars
       ELSE EnterRetry("convert_to_3d")

\* One iteration of the loop of _call_with_retry; when the wrapper returns,
\* the public operation normalises the wrapper's value and returns.
StubCall(o) ==
    /\ pc = "retry"
    /\ attempt < max_retries
    /\ LET it == IterationResult(attempt, o)
           over == ~it.exit /\ attempt + 1 >= max_retries
           value == IF it.exit THEN it.value ELSE PyNone
       IN /\ calls' = Append(calls, Kind(o))
          /\ last' = o
          /\ delays' = IF it.slept THEN delays + 1 ELSE delays
          /\ IF it.exit \/ over
             THEN /\ wrapped' = value
                  /\ ret' = Normalize(op, value)
                  /\ pc' = "done"
                  /\ UNCHANGED attempt
             ELSE /\ attempt' = attempt + 1
                  /\ UNCHANGED <<wrapped, ret, pc>>
          /\ UNCHANGED <<op, raised>>
          /\ UNCHANGED storeVars

NextCall ==
    \/ generate_image
    \/ \E image_data \in ImageInputs : convert_to_3d(image_data)
    \/ \E o \in Outcomes : StubCall(o)

SpecCall == Init /\ [][NextCall]_vars

\* The loop is synchronous code: once entered, each iteration is executed.
FairSpecCall == SpecCall /\ WF_vars(\E o \in Outcomes : StubCall(o))

(***************************************************************************)
(* Claims about the orchestrator                                           *)
(***************************************************************************)
\* The first k stub calls all failed with the not-ready signature.
NotReadyPrefix(k) ==
    /\ Len(calls) >= k
    /\ \A i \in 1..k : calls[i] = "not_ready"

OperationDone(o) == pc = "done" /\ op = o

\* C1 (as claimed): when the first stub call fails with an error that is not
\* the not-ready signature, that call is the only attempt ever issued and the
\* operation has returned None.
C1_NonRetryableFailureIsTerminal ==
    (calls # <<>> /\ calls[1] = "error")
        => /\ Len(calls) = 1
           /\ pc = "done"
           /\ wrapped = PyNone
           /\ ret = PyNone

\* C2: after k < 3 not-ready failures the wrapper is still retrying; when the
\* next call returns a non-empty response the wrapper returns that response,
\* having issued exactly k + 1 attempts and slept k times; after 3 not-ready
\* failures it has issued exactly 3 attempts and returned None.
C2_RetryOnNotReady ==
    /\ \A k \in 0..2 :
          /\ (k > 0 /\ NotReadyPrefix(k) /\ Len(calls) = k)
                => (pc = "retry" /\ attempt = k /\ delays = k)
          /\ (NotReadyPrefix(k) /\ Len(calls) > k /\ calls[k + 1] = "truthy")
                => /\ Len(calls) = k + 1
                   /\ pc = "done"
                   /\ wrapped = last.value
                   /\ Truthy(wrapped)
    /\ NotReadyPrefix(3)
          => /\ Len(calls) = 3
             /\ pc = "done"
             /\ wrapped = PyNone
             /\ ret = PyNone

C2_Witness ==
    /\ pc = "done"
    /\ calls = <<"not_ready", "truthy">>
    /\ wrapped = last.value

\* What the two operations hand back: None, a field value, or a result map.
ReturnValues ==
    {PyNone} \cup FieldValues
        \cup {PyDict(m) : m \in UNION {[K -> FieldValues] : K \in SUBSET {"model", "video"}}}

\* C3: whatever the stub does and whatever the input is, no exception reaches
\* the caller of generate_image / convert_to_3d, and a finished operation has
\* returned a value or None.
C3_NeverRaises ==
    /\ ~raised
    /\ pc = "done" => ret \in ReturnValues

\* convert_to_3d was given an input that base64 cannot encode, and has returned.
C3_Witness ==
    /\ OperationDone("convert_to_3d")
    /\ calls = <<>>
    /\ ret = PyNone

\* C4: one call through the wrapper issues at most 3 attempts and sleeps at
\* most 2 times, a finished call has returned the non-empty response of its
\* last attempt or None, and every call that entered the loop finishes.
C4_BoundedAndTerminates ==
    /\ [](/\ Len(calls) <= 3
          /\ delays <= 2
          /\ (pc = "done" /\ calls # <<>>)
                => \/ wrapped = PyNone
                   \/ Truthy(wrapped) /\ wrapped = last.value)
    /\ [](pc = "retry" => <>(pc = "done"))

C4_Witness ==
    /\ pc = "done"
    /\ Len(calls) = 3
    /\ delays = 2

\* The response convert_to_3d received from the latest stub call is a dict.
LastIsDict == last.kind = "return" /\ IsDict(last.value)

ModelVideoMatch(r, response) ==
    /\ IsDict(r)
    /\ ("model" \in DOMAIN r.d) <=> ("generated_object" \in DOMAIN response.d)
    /\ ("video" \in DOMAIN r.d) <=> ("video_object" \in DOMAIN response.d)

\* C5 (as claimed): convert_to_3d returns None only when the call failed or
\* the response is not a dict; for every dict response, also one with neither
\* generated_object nor video_object, it returns a result map holding model
\* iff generated_object was present and video iff video_object was present.
C5_EveryDictYieldsMap ==
    OperationDone("convert_to_3d")
        => /\ ret = PyNone => ~LastIsDict
           /\ LastIsDict => ModelVideoMatch(ret, last.value)

\* C5 (amended): the same for every non-empty dict response; the empty dict
\* is treated like a failed call: None.
C5_NonEmptyDictYieldsMap ==
    OperationDone("convert_to_3d")
        => /\ ret = PyNone => ~(LastIsDict /\ Truthy(last.value))
           /\ (LastIsDict /\ Truthy(last.value))
                 => /\ ModelVideoMatch(ret, last.value)
                    /\ "model" \in DOMAIN ret.d
                          => ret.d["model"] = last.value.d["generated_object"]
                    /\ "video" \in DOMAIN ret.d
                          => ret.d["video"] = last.value.d["video_object"]
           /\ (LastIsDict /\ ~Truthy(last.value)) => ret = PyNone

\* A dict response with neither field, but not empty, gave the empty map.
C5_Witness ==
    /\ OperationDone("convert_to_3d")
    /\ LastIsDict
    /\ DOMAIN last.value.d = {"status"}
    /\ ret = PyDict(EmptyDict)

\* C6: generate_image returns the value of the result field of the response
\* whenever the response is a dict with a result field, whatever that value
\* is, and None for every other response and for every failed call.
C6_GenerateImageResult ==
    OperationDone("generate_image")
        => IF LastIsDict /\ "result" \in DOMAIN last.value.d
           THEN ret = last.value.d["result"]
           ELSE ret = PyNone

\* The result field was present and held empty bytes, after a retried attempt.
C6_Witness ==
    /\ OperationDone("generate_image")
    /\ calls = <<"not_ready", "truthy">>
    /\ DOMAIN last.value.d = {"result"}
    /\ last.value.d["result"] = PyBytes("")
    /\ ret = PyBytes("")

(***************************************************************************)
(* Generation Store: text values                                           *)
(*                                                                         *)
(* A text is a sequence of one-character strings.  NULL is the SQL NULL    *)
(* (Python None) of a text column; no text equals it.                      *)
(***************************************************************************)
NULL == <<"NULL">>

NoPath == "NULL"

\* ASCII lower-casing of one character (str.lower, SQL LOWER, LIKE folding).
Lower(c) ==
    CASE c = "A" -> "a"
      [] c = "D" -> "d"
      [] c = "R" -> "r"
      [] OTHER -> c

LowerStr(s) == [i \in 1..Len(s) |-> Lower(s[i])]

\* SQLite's LIKE without ESCAPE: % matches any run of characters, _ matches
\* any one character, every other character matches itself ignoring case.
RECURSIVE Like(_, _)
Like(pattern, text) ==
    IF pattern = <<>> THEN text = <<>>
    ELSE IF Head(pattern) = "%"
         THEN \/ Like(Tail(pattern), text)
              \/ text # <<>> /\ Like(pattern, Tail(text))
         ELSE /\ text # <<>>
              /\ \/ Head(pattern) = "_"
                 \/ Lower(Head(pattern)) = Lower(Head(text))
              /\ Like(Tail(pattern), Tail(text))

\* "column LIKE ?": NULL LIKE anything is NULL, which WHERE treats as false.
SqlLike(column, pattern) == column # NULL /\ Like(pattern, column)

\* f"%{term}%"
Wrap(term) == <<"%">> \o term \o <<"%">>

\* str.split(): the maximal runs of non-blank characters.
RECURSIVE Split(_, _)
Split(s, cur) ==
    IF s = <<>> THEN (IF cur = <<>> THEN {} ELSE {cur})
    ELSE IF Head(s) = " "
         THEN (IF cur = <<>> THEN {} ELSE {cur}) \cup Split(Tail(s), <<>>)
         ELSE Split(Tail(s), Append(cur, Head(s)))

\* set(prompt.lower().split())
Words(prompt) == Split(LowerStr(prompt), <<>>)

(***************************************************************************)
(* Generation Store: rows                                                  *)
(***************************************************************************)
MaxId == 4

MaxRows == 3

MaxTime == 2

NoMeta == [edit |-> FALSE, original_prompt |-> <<>>, previous_enhanced_prompt |-> <<>>]

\* {"edit_history": {"original_prompt": ..., "previous_enhanced_prompt": ...}}
EditMeta(original_prompt, previous_enhanced_prompt) ==
    [edit |-> TRUE, original_prompt |-> original_prompt,
     previous_enhanced_prompt |-> previous_enhanced_prompt]

\* json.dumps(metadata) if metadata else None
StoredMetadata(metadata) == IF metadata.edit THEN metadata ELSE NoMeta

SetMax(S) == CHOOSE x \in S : \A y \in S : y <= x

\* Mutant: a plain INTEGER PRIMARY KEY: one more than the largest id in the table.
NextId_MaxRowid == SetMax({0} \cup {r.id : r \in rows}) + 1

\* INTEGER PRIMARY KEY AUTOINCREMENT: one more than the largest id the table
\* ever held, which sqlite_sequence remembers across deletions.
NextId == SetMax({seq} \cup {r.id : r \in rows}) + 1

\* Mutant: the row is looked up with "WHERE id >= ?".
RowWithId_AtLeast(generation_id) ==
    LET S == {r \in rows : r.id >= generation_id}
    IN {r \in S : \A x \in S : r.id <= x.id}

RowWithId(generation_id) == {r \in rows : r.id = generation_id}

\* os.path.exists(path) behind "if path and ..."
Exists(path) == path # NoPath /\ path \in files

\* All orders of the rows of S that "ORDER BY created_at DESC" may produce:
\* rows with equal created_at come in an order SQL leaves open.
OrderByCreatedDesc(S) ==
    {s \in [1..Cardinality(S) -> S] :
        /\ \A i, j \in 1..Cardinality(S) : i # j => s[i] # s[j]
        /\ \A i, j \in 1..Cardinality(S) : i < j => s[i].created_at >= s[j].created_at}

\* Mutant: the edits are read with "ORDER BY created_at DESC".
OrderByCreatedAsc_Desc(S) == OrderByCreatedDesc(S)

\* All orders of the rows of S that "ORDER BY created_at ASC" may produce.
OrderByCreatedAsc(S) ==
    {s \in [1..Cardinality(S) -> S] :
        /\ \A i, j \in 1..Cardinality(S) : i # j => s[i] # s[j]
        /\ \A i, j \in 1..Cardinality(S) : i < j => s[i].created_at <= s[j].created_at}

(***************************************************************************)
(* Generation Store: operations                                            *)
(***************************************************************************)
\* Mutant: the handler of a store operation re-raises.
StoreExcept_Reraise(failure) == [ret |-> failure, raised |-> TRUE]

\* "except Exception as e: logging.error(...); return <failure value>"
StoreExcept(failure) == [ret |-> failure, raised |-> FALSE]

\* A store operation starts: what every operation records.
Started(operation, argument, fault) ==
    /\ sop' = operation
    /\ sarg' = argument
    /\ sfault' = fault
    /\ before' = [rows |-> rows, files |-> files]
    /\ UNCHANGED step

\* The operation ends in its except clause, with nothing committed.
Failed(failure) ==
    /\ sret' = StoreExcept(failure).ret
    /\ sraised' = StoreExcept(failure).raised

Returns(value) ==
    /\ sret' = value
    /\ sraised' = FALSE

\* save_generation; fault: the storage raises (connect, execute or commit).
save_generation(prompt, enhanced_prompt, image_path, model_path, metadata, fault) ==
    /\ seq < MaxId
    /\ Cardinality(rows) < MaxRows
    /\ Started("save", prompt, IF fault THEN "storage" ELSE "none")
    /\ IF fault \/ prompt = NULL
       THEN /\ Failed(-1)
            /\ UNCHANGED <<rows, seq, returned>>
       ELSE /\ rows' = rows \cup
                  {[id |-> NextId,
                    prompt |-> prompt,
                    enhanced_prompt |-> enhanced_prompt,
                    image_path |-> image_path,
                    model_path |-> model_path,
                    created_at |-> now,
                    metadata |-> StoredMetadata(metadata)]}
            /\ seq' = NextId
            /\ Returns(NextId)
            /\ returned' = Append(returned, NextId)
    /\ UNCHANGED <<now, files>>
    /\ UNCHANGED callVars

\* Mutant: the directory cleanup is not guarded: its failure reaches the
\* outer handler, which returns False.
CleanupReturn_Fatal(cleanupRaises) == ~cleanupRaises

\* The value returned after the rows were removed and the directory cleanup
\* ran: a failure of the cleanup is logged and True is returned all the same.
CleanupReturn(cleanupRaises) == TRUE

\* delete_generation; fault: "connect" - the storage raises before the row is
\* read, "delete" - the DELETE or the commit raises; rmFail: the paths whose
\* os.remove raises; dirFail: os.listdir / os.rmdir raises.
delete_generation(generation_id, fault, rmFail, dirFail) ==
    /\ Started("delete", generation_id, fault)
    /\ IF fault = "connect"
       THEN /\ Failed(FALSE)
            /\ UNCHANGED <<rows, files>>
       ELSE IF RowWithId(generation_id) = {}
       THEN /\ Returns(FALSE)
            /\ UNCHANGED <<rows, files>>
       ELSE LET r == CHOOSE x \in RowWithId(generation_id) : TRUE
                removed == {p \in {r.image_path, r.model_path} :
                               Exists(p) /\ p \notin rmFail}
            IN /\ files' = files \ removed
               /\ IF fault = "delete"
                  THEN /\ Failed(FALSE)
                       /\ UNCHANGED rows
                  ELSE /\ Returns(CleanupReturn(dirFail /\ removed # {}))
                       /\ rows' = rows \ {r}
    /\ UNCHANGED <<seq, now, returned>>
    /\ UNCHANGED callVars

\* Mutant: the removal of the files is not guarded: a failing os.remove ends
\* the operation in the outer handler, before any row is removed.
clear_database_AbortOnBlobFailure(fault, rmFail, dirFail) ==
    /\ Started("clear", <<>>, fault)
    /\ LET hit == \E r \in rows :
                     \/ Exists(r.image_path) /\ r.image_path \in rmFail
                     \/ Exists(r.model_path) /\ r.model_path \in rmFail
           gone == {p \in files : \E r \in rows : p \in {r.image_path, r.model_path}}
       IN IF fault # "none" \/ hit
          THEN /\ Failed(FALSE)
               /\ UNCHANGED <<rows, files>>
          ELSE /\ Returns(TRUE)
               /\ rows' = {}
               /\ files' = files \ gone
    /\ UNCHANGED <<seq, now, returned>>
    /\ UNCHANGED callVars

\* clear_database.  One try block covers both files of a row: when the
\* removal of the image raises, the model of that row is not attempted.
clear_database(fault, rmFail, dirFail) ==
    /\ Started("clear", <<>>, fault)
    /\ IF fault = "connect"
       THEN /\ Failed(FALSE)
            /\ UNCHANGED <<rows, files>>
       ELSE LET imageRaises(r) == Exists(r.image_path) /\ r.image_path \in rmFail
                images == {r.image_path : r \in {x \in rows : Exists(x.image_path)}}
                models == {r.model_path :
                             r \in {x \in rows : Exists(x.model_path) /\ ~imageRaises(x)}}
            IN /\ files' = files \ ((images \cup models) \ rmFail)
               /\ IF fault = "delete"
                  THEN /\ Failed(FALSE)
                       /\ UNCHANGED rows
                  ELSE /\ Returns(CleanupReturn(dirFail))
                       /\ rows' = {}
    /\ UNCHANGED <<seq, now, returned>>
    /\ UNCHANGED callVars

\* "ORDER BY created_at DESC LIMIT ?": SQLite reads a negative limit as no
\* limit at all.
ListRecent(limit) ==
    LET n == IF limit < 0 \/ limit > Cardinality(rows)
             THEN Cardinality(rows) ELSE limit
    IN {SubSeq(s, 1, n) : s \in OrderByCreatedDesc(rows)}

\* get_generations
get_generations(limit, fault) ==
    /\ Started("list", limit, IF fault THEN "storage" ELSE "none")
    /\ IF fault
       THEN Failed(<<>>)
       ELSE \E result \in ListRecent(limit) : Returns(result)
    /\ UNCHANGED <<rows, seq, now, files, returned>>
    /\ UNCHANGED callVars

\* The first entry of an edit history.
OriginalEntry(original) ==
    [type |-> "original",
     prompt |-> original.prompt,
     enhanced_prompt |-> original.enhanced_prompt,
     timestamp |-> original.created_at]

\* A later entry of an edit history; a key that the metadata lacks reads as
\* None.
EditEntry(edit) ==
    [type |-> "edit",
     prompt |-> edit.prompt,
     enhanced_prompt |-> edit.enhanced_prompt,
     previous_prompt |-> IF edit.metadata.edit
                         THEN edit.metadata.previous_enhanced_prompt
                         ELSE NULL,
     timestamp |-> edit.created_at]

\* json_extract(metadata, '$.edit_history.original_prompt') = ?
EditsOf(prompt) ==
    {r \in rows : r.metadata.edit /\ r.metadata.original_prompt = prompt}

\* Mutant: a missing original is shown as an entry without values.
get_edit_history_PlaceholderOriginal(generation_id, fault) ==
    /\ Started("lineage", generation_id, IF fault THEN "storage" ELSE "none")
    /\ IF fault
       THEN Failed(<<>>)
       ELSE IF RowWithId(generation_id) = {}
       THEN Returns(<<[type |-> "original", prompt |-> NULL,
                       enhanced_prompt |-> NULL, timestamp |-> NULL]>>)
       ELSE LET original == CHOOSE r \in RowWithId(generation_id) : TRUE
            IN \E edits \in OrderByCreatedAsc(EditsOf(original.prompt)) :
                  Returns(<<OriginalEntry(original)>> \o
                          [i \in 1..Len(edits) |-> EditEntry(edits[i])])
    /\ UNCHANGED <<rows, seq, now, files, returned>>
    /\ UNCHANGED callVars

\* get_edit_history.  With no row of that id, dict(cursor.fetchone()) raises
\* and the handler returns the empty list.
get_edit_history(generation_id, fault) ==
    /\ Started("lineage", generation_id, IF fault THEN "storage" ELSE "none")
    /\ IF fault \/ RowWithId(generation_id) = {}
       THEN Failed(<<>>)
       ELSE LET original == CHOOSE r \in RowWithId(generation_id) : TRUE
            IN \E edits \in OrderByCreatedAsc(EditsOf(original.prompt)) :
                  Returns(<<OriginalEntry(original)>> \o
                          [i \in 1..Len(edits) |-> EditEntry(edits[i])])
    /\ UNCHANGED <<rows, seq, now, files, returned>>
    /\ UNCHANGED callVars

\* Mutant: the status is derived from the stored paths alone.
Status_PathsOnly(entry) ==
    IF entry.model_path # NoPath THEN "Complete"
    ELSE IF entry.image_path # NoPath THEN "Image Only"
    ELSE "Incomplete"

\* The status that get_database_info derives for an entry when it reads it.
Status(entry) ==
    IF Exists(entry.model_path) THEN "Complete"
    ELSE IF Exists(entry.image_path) THEN "Image Only"
    ELSE "Incomplete"

\* entry['status'] = ...: the row with one more key.
WithStatus(entry) ==
    [id |-> entry.id,
     prompt |-> entry.prompt,
     enhanced_prompt |-> entry.enhanced_prompt,
     image_path |-> entry.image_path,
     model_path |-> entry.model_path,
     created_at |-> entry.created_at,
     metadata |-> entry.metadata,
     status |-> Status(entry)]

\* PRAGMA table_info(generations): the columns of the table.
TableInfo ==
    <<"id", "prompt", "enhanced_prompt", "image_path", "model_path",
      "created_at", "metadata">>

NoInfo == [total_entries |-> 0, table_info |-> <<>>, entries |-> <<>>]

\* get_database_info
get_database_info(fault) ==
    /\ Started("info", <<>>, IF fault THEN "storage" ELSE "none")
    /\ IF fault
       THEN Failed(NoInfo)
       ELSE \E entries \in OrderByCreatedDesc(rows) :
               Returns([total_entries |-> Len(entries),
                        table_info |-> TableInfo,
                        entries |-> [i \in 1..Len(entries) |-> WithStatus(entries[i])]])
    /\ UNCHANGED <<rows, seq, now, files, returned>>
    /\ UNCHANGED callVars

\* search_generations
SearchMatches(search_term) ==
    {r \in rows : \/ SqlLike(r.prompt, Wrap(search_term))
                  \/ SqlLike(r.enhanced_prompt, Wrap(search_term))}

search_generations(search_term, fault) ==
    /\ Started("search", search_term, IF fault THEN "storage" ELSE "none")
    /\ IF fault
       THEN Failed(<<>>)
       ELSE \E result \in OrderByCreatedDesc(SearchMatches(search_term)) :
                Returns(result)
    /\ UNCHANGED <<rows, seq, now, files, returned>>
    /\ UNCHANGED callVars

\* get_latest_context: the rows the WHERE clause keeps.
ContextMatches(words) ==
    {r \in rows : \E w \in words : SqlLike(LowerStr(r.prompt), Wrap(w))}

\* "COUNT(*) as match_count ... GROUP BY id": the number of kept rows in the
\* group of row r.
MatchCount(r, words) ==
    Cardinality({x \in ContextMatches(words) : x.id = r.id})

\* "ORDER BY match_count DESC, created_at DESC LIMIT 1": the rows that may
\* come first.
ContextFirst(words) ==
    {r \in ContextMatches(words) :
        \A x \in ContextMatches(words) :
            \/ MatchCount(r, words) > MatchCount(x, words)
            \/ /\ MatchCount(r, words) = MatchCount(x, words)
               /\ r.created_at >= x.created_at}

\* A prompt without words gives "WHERE  GROUP BY": a syntax error, caught.
get_latest_context(prompt, fault) ==
    /\ Started("context", prompt, IF fault THEN "storage" ELSE "none")
    /\ IF fault \/ Words(prompt) = {}
       THEN Failed(<<>>)
       ELSE IF ContextFirst(Words(prompt)) = {}
       THEN Returns(<<>>)
       ELSE \E r \in ContextFirst(Words(prompt)) : Returns(<<r>>)
    /\ UNCHANGED <<rows, seq, now, files, returned>>
    /\ UNCHANGED callVars

(***************************************************************************)
(* The saves of the three buttons of the interface                         *)
(***************************************************************************)
\* "Generate Image": refused for an empty prompt box; the image is written
\* (WriteBlob) before the save.
generate_btn(prompt, enhanced_prompt, image_path, fault) ==
    /\ prompt # <<>>
    /\ save_generation(prompt, enhanced_prompt, image_path, NoPath, NoMeta, fault)

\* Mutant: "Update Image" rewrites the record of the prompt it edits.
update_btn_InPlace(prompt, edit_prompt, previous_prompt, enhanced_edit_prompt, image_path, fault) ==
    /\ edit_prompt # <<>>
    /\ Started("save", edit_prompt, IF fault THEN "storage" ELSE "none")
    /\ IF fault \/ {r \in rows : r.prompt = prompt} = {}
       THEN /\ Failed(-1)
            /\ UNCHANGED rows
       ELSE \E r \in {x \in rows : x.prompt = prompt} :
               /\ rows' = (rows \ {r}) \cup
                     {[r EXCEPT !.prompt = edit_prompt,
                                !.enhanced_prompt = enhanced_edit_prompt,
                                !.image_path = image_path,
                                !.metadata = EditMeta(prompt, previous_prompt)]}
               /\ Returns(r.id)
    /\ UNCHANGED <<seq, now, files, returned>>
    /\ UNCHANGED callVars

\* "Update Image": refused for an empty edit request; prompt is the content
\* of the prompt box, previous_prompt the enhanced prompt of the session.
update_btn(prompt, edit_prompt, previous_prompt, enhanced_edit_prompt, image_path, fault) ==
    /\ edit_prompt # <<>>
    /\ save_generation(edit_prompt, enhanced_edit_prompt, image_path, NoPath,
                       EditMeta(prompt, previous_prompt), fault)

\* "Convert to 3D Model": the prompt box is saved as it is, empty or not.
convert_btn(prompt, enhanced_prompt, image_path, model_path, fault) ==
    save_generation(prompt, enhanced_prompt, image_path, model_path, NoMeta, fault)

\* One second passes.
Tick ==
    /\ now < MaxTime
    /\ now' = now + 1
    /\ UNCHANGED <<rows, seq, files, returned, sop, sarg, sret, sfault, sraised, before, step>>
    /\ UNCHANGED callVars

\* save_binary_to_file: a blob is written.
WriteBlob(path) ==
    /\ path \notin files
    /\ files' = files \cup {path}
    /\ Started("write_blob", path, "none")
    /\ Returns(path)
    /\ UNCHANGED <<rows, seq, now, returned>>
    /\ UNCHANGED callVars

StorageFaults == {"none", "connect", "delete"}

\* The rows that had the id given to the latest operation when it started.
Target == {r \in before.rows : r.id = sarg}

(***************************************************************************)
(* SpecLineage: originals, edits and their histories                       *)
(***************************************************************************)
\* What the saves of this specification store: a first generation, an edit
\* of it, and an edit of an edit.
LineageSaves ==
    {[prompt |-> <<"a">>, metadata |-> NoMeta],
     [prompt |-> <<"b">>, metadata |-> EditMeta(<<"a">>, <<"e">>)],
     [prompt |-> <<"b">>, metadata |-> EditMeta(<<"b">>, <<"f">>)]}

NextLineage ==
    \/ \E g \in LineageSaves, fault \in BOOLEAN :
            save_generation(g.prompt, <<"e">>, NoPath, NoPath, g.metadata, fault)
    \/ \E generation_id \in 1..MaxId, fault \in BOOLEAN :
            get_edit_history(generation_id, fault)
    \/ \E generation_id \in 1..MaxId :
            delete_generation(generation_id, "none", {}, FALSE)
    \/ Tick

SpecLineage == Init /\ [][NextLineage]_vars

\* The rows that an edit history may list after its first entry, in some
\* order, with the fields the history shows of each.
ShowsEdits(history, E) ==
    \E s \in [1..Cardinality(E) -> E] :
        /\ \A i, j \in 1..Cardinality(E) : i # j => s[i] # s[j]
        /\ \A i \in 1..Cardinality(E) :
              /\ history[i + 1].type = "edit"
              /\ history[i + 1].prompt = s[i].prompt
              /\ history[i + 1].enhanced_prompt = s[i].enhanced_prompt
              /\ history[i + 1].previous_prompt = s[i].metadata.previous_enhanced_prompt
              /\ history[i + 1].timestamp = s[i].created_at

\* C14: the edit history of a stored id starts with that record, tagged
\* original, and goes on with exactly the records whose edit metadata names
\* the prompt of that record, tagged edit, in ascending creation time; an
\* original with two later edits gives three entries in chronological order.
C14_LineageIsOriginalThenEditsAscending ==
    (sop = "lineage" /\ sfault = "none" /\ Target # {})
        => \A o \in Target :
             LET E == {r \in rows : /\ r.metadata.edit
                                    /\ r.metadata.original_prompt = o.prompt}
             IN /\ ~sraised
                /\ Len(sret) = 1 + Cardinality(E)
                /\ sret[1].type = "original"
                /\ sret[1].prompt = o.prompt
                /\ sret[1].enhanced_prompt = o.enhanced_prompt
                /\ sret[1].timestamp = o.created_at
                /\ ShowsEdits(sret, E)
                /\ \A i, j \in 2..Len(sret) :
                      i < j => sret[i].timestamp <= sret[j].timestamp
                /\ (Cardinality(E) = 2 /\ \A r \in E : r.created_at >= o.created_at)
                      => /\ Len(sret) = 3
                         /\ \A i, j \in 1..3 :
                               i < j => sret[i].timestamp <= sret[j].timestamp

\* The history of an original with two edits made at different times.
C14_Witness ==
    /\ sop = "lineage"
    /\ Len(sret) = 3
    /\ sret[1].timestamp <= sret[2].timestamp
    /\ sret[2].timestamp < sret[3].timestamp
    /\ sret[2].prompt # sret[1].prompt

\* C15: the edit history of an id that the store does not hold, never saved
\* or deleted since, is empty, and the operation does not raise.
C15_LineageOfMissingIdIsEmpty ==
    (sop = "lineage" /\ Target = {}) => (sret = <<>> /\ ~sraised)

\* The history of an id that was saved and then deleted, asked of a store
\* that holds other rows and met by no storage failure.
C15_Witness ==
    /\ sop = "lineage"
    /\ sfault = "none"
    /\ \E i \in 1..Len(returned) : returned[i] = sarg
    /\ Target = {}
    /\ rows # {}
    /\ sret = <<>>

(***************************************************************************)
(* SpecInfo: the statuses that introspection derives                       *)
(***************************************************************************)
ImagePaths == {"outputs/images/generated_1.png"}

ModelPaths == {"outputs/models/model_1.glb"}

NextInfo ==
    \/ \E image_path \in ImagePaths \cup {NoPath},
          model_path \in ModelPaths \cup {NoPath} :
            save_generation(<<"a">>, NULL, image_path, model_path, NoMeta, FALSE)
    \/ \E path \in ImagePaths \cup ModelPaths : WriteBlob(path)
    \/ clear_database("none", ImagePaths, FALSE)
    \/ \E fault \in BOOLEAN : get_database_info(fault)

SpecInfo == Init /\ [][NextInfo]_vars

\* C16: introspection reports as many entries as there are rows, one for
\* each row, and gives each the status Complete when its model path is set
\* and that file exists, else Image Only when its image path is set and that
\* file exists, else Incomplete.
C16_StatusDerivedFromPathsAndFiles ==
    (sop = "info" /\ sfault = "none")
        => /\ sret.total_entries = Cardinality(rows)
           /\ Len(sret.entries) = Cardinality(rows)
           /\ \A r \in rows :
                 \E i \in 1..Len(sret.entries) :
                    /\ sret.entries[i].id = r.id
                    /\ sret.entries[i].image_path = r.image_path
                    /\ sret.entries[i].model_path = r.model_path
                    /\ sret.entries[i].status =
                          IF r.model_path # NoPath /\ r.model_path \in files
                          THEN "Complete"
                          ELSE IF r.image_path # NoPath /\ r.image_path \in files
                               THEN "Image Only"
                               ELSE "Incomplete"

\* Introspection of a store in which one row's model file is gone though its
\* path is set, and another row has no file at all.
C16_Witness ==
    /\ sop = "info"
    /\ sret.total_entries >= 2
    /\ \E i, j \in 1..Len(sret.entries) :
          /\ sret.entries[i].status = "Image Only"
          /\ sret.entries[i].model_path # NoPath
          /\ sret.entries[j].status = "Incomplete"

(***************************************************************************)
(* SpecFrame: every operation of the store, driven as the interface does   *)
(***************************************************************************)
\* What the prompt box may hold when "Convert to 3D Model" is pressed.
PromptBox == {<<>>, <<"a">>}

\* The number of records that the store holds at most in SpecFrame.
MaxFrameRows == 2

NextFrame ==
    \/ \E image_path \in ImagePaths, fault \in BOOLEAN :
            /\ Cardinality(rows) < MaxFrameRows
            /\ generate_btn(<<"a">>, <<"e">>, image_path, fault)
    \/ \E image_path \in ImagePaths, fault \in BOOLEAN :
            /\ Cardinality(rows) < MaxFrameRows
            /\ update_btn(<<"a">>, <<"b">>, <<"e">>, <<"f">>, image_path, fault)
    \/ \E prompt \in PromptBox, image_path \in ImagePaths,
          model_path \in ModelPaths, fault \in BOOLEAN :
            /\ Cardinality(rows) < MaxFrameRows
            /\ convert_btn(prompt, <<"e">>, image_path, model_path, fault)
    \/ \E fault \in BOOLEAN : get_generations(10, fault)
    \/ \E fault \in BOOLEAN : search_generations(<<"a">>, fault)
    \/ \E generation_id \in 1..MaxId, fault \in StorageFaults,
          rmFail \in SUBSET ImagePaths :
            delete_generation(generation_id, fault, rmFail, FALSE)
    \/ \E fault \in StorageFaults : clear_database(fault, {}, FALSE)
    \/ \E generation_id \in 1..MaxId, fault \in BOOLEAN :
            get_edit_history(generation_id, fault)
    \/ \E fault \in BOOLEAN : get_latest_context(<<"a">>, fault)
    \/ \E fault \in BOOLEAN : get_database_info(fault)
    \/ \E path \in ImagePaths : WriteBlob(path)

SpecFrame == Init /\ [][NextFrame]_vars

\* C17: every stored record has a prompt that is neither missing nor empty,
\* and a creation time; a save with a missing or empty prompt adds no record.
C17_PromptRequiredAndNonEmpty ==
    /\ \A r \in rows : r.prompt # NULL /\ r.prompt # <<>> /\ r.created_at \in Nat
    /\ (sop = "save" /\ sarg \in {NULL, <<>>}) => rows = before.rows

\* C18: no operation changes a field of a record that is in the store before
\* and after it, and a successful save, the one of "Update Image" included,
\* keeps every record and adds exactly one, under a new id.
C18_RecordsAreNeverUpdatedInPlace ==
    /\ \A r \in before.rows : \A x \in rows : x.id = r.id => x = r
    /\ (sop = "save" /\ sret # -1)
          => /\ before.rows \subseteq rows
             /\ \E r \in rows :
                   /\ rows \ before.rows = {r}
                   /\ r.id = sret
                   /\ \A x \in before.rows : x.id # r.id
                   /\ r.metadata.edit => r.metadata.original_prompt = <<"a">>

\* "Update Image" has saved an edit of a record that is still in the store,
\* unchanged, next to the new one.
C18_Witness ==
    /\ sop = "save"
    /\ \E r \in rows :
          /\ r.id = sret
          /\ r.metadata.edit
          /\ \E o \in before.rows :
                /\ o.prompt = r.metadata.original_prompt
                /\ o \in rows
                /\ o.id < r.id

\* The value that an operation returns when the storage fails.
FailureValue(operation) ==
    CASE operation = "save" -> -1
      [] operation \in {"delete", "clear"} -> FALSE
      [] operation \in {"list", "search", "lineage", "context"} -> <<>>
      [] operation = "info" -> [total_entries |-> 0, table_info |-> <<>>,
                                entries |-> <<>>]

\* C19: an operation during which the storage fails does not raise and
\* returns its failure value: -1 from a save, which adds no record, False
\* from delete and clear, nothing from the queries, no entries from
\* introspection.
C19_StorageFailureGivesFailureValue ==
    sfault # "none"
        => /\ ~sraised
           /\ sret = FailureValue(sop)
           /\ rows = before.rows

\* A save fails on a store that holds records.
C19_Witness ==
    /\ sfault = "storage"
    /\ sop = "save"
    /\ sret = -1
    /\ rows # {}

(***************************************************************************)
(* SpecList: the most recent records                                       *)
(***************************************************************************)
\* The limits asked for: none of the callers checks the sign of the limit.
ListLimits == {-1, 0, 1, 2, 10}

NextList ==
    \/ \E prompt \in PromptBox :
            save_generation(prompt, NULL, NoPath, NoPath, NoMeta, FALSE)
    \/ \E limit \in ListLimits, fault \in BOOLEAN : get_generations(limit, fault)
    \/ Tick

SpecList == Init /\ [][NextList]_vars

\* C20: a listing returns at most limit records, for every limit: the
\* min(limit, N) records created last out of the N stored, latest first.
C20_ListReturnsLatestAtMostLimit ==
    (sop = "list" /\ sfault = "none")
        => /\ Len(sret) <= (IF sarg < 0 THEN 0 ELSE sarg)
           /\ Len(sret) = Cardinality(rows) \/ Len(sret) = sarg
           /\ \A i \in 1..Len(sret) : sret[i] \in rows
           /\ \A i, j \in 1..Len(sret) :
                 i < j => (sret[i] # sret[j] /\ sret[i].created_at >= sret[j].created_at)
           /\ \A r \in rows :
                 (\A i \in 1..Len(sret) : sret[i] # r)
                    => \A i \in 1..Len(sret) : sret[i].created_at >= r.created_at

(***************************************************************************)
(* SpecStore: saves, deletions and bulk clears                             *)
(***************************************************************************)
StorePrompts == {NULL, <<"a">>}

StorePaths == {"outputs/images/generated_1.png"}

NextStore ==
    \/ \E prompt \in StorePrompts, image_path \in StorePaths \cup {NoPath},
          fault \in BOOLEAN :
            save_generation(prompt, NULL, image_path, NoPath, NoMeta, fault)
    \/ \E generation_id \in 1..MaxId, fault \in StorageFaults,
          rmFail \in SUBSET StorePaths, dirFail \in BOOLEAN :
            delete_generation(generation_id, fault, rmFail, dirFail)
    \/ \E fault \in StorageFaults, rmFail \in SUBSET StorePaths, dirFail \in BOOLEAN :
            clear_database(fault, rmFail, dirFail)
    \/ \E path \in StorePaths : WriteBlob(path)

SpecStore == Init /\ [][NextStore]_vars

\* C11: a delete of an id that the store does not hold returns False and
\* changes neither the rows nor the blob files.
C11_DeleteOfMissingIdChangesNothing ==
    (sop = "delete" /\ Target = {})
        => /\ sret = FALSE
           /\ ~sraised
           /\ rows = before.rows
           /\ files = before.files

\* A delete of a missing id, met by no storage failure, on a store that holds
\* rows and blobs.
C11_Witness ==
    /\ sop = "delete"
    /\ sfault = "none"
    /\ Target = {}
    /\ before.rows # {}
    /\ before.files = StorePaths
    /\ sret = FALSE

\* C12: a delete of an id that the store holds, met by no storage failure,
\* returns True and removes exactly that row, whether the blobs of the row
\* exist, are missing or cannot be removed, and whether the directory cleanup
\* fails or not; it never raises.
C12_DeleteOfExistingIdRemovesItsRow ==
    (sop = "delete" /\ sfault = "none" /\ Target # {})
        => /\ sret = TRUE
           /\ ~sraised
           /\ rows = before.rows \ Target
           /\ Cardinality(Target) = 1

\* The image of the deleted row could not be removed: the row is gone all
\* the same, and the other rows are still there.
C12_Witness ==
    /\ sop = "delete"
    /\ sret = TRUE
    /\ \E r \in Target : r.image_path \in files
    /\ rows # {}

\* C13: a clear met by no storage failure returns True and leaves no row, so
\* that listing as many rows as there were gives nothing, also when blobs
\* could not be removed; a clear that returns False met a storage failure.
C13_ClearLeavesNoRow ==
    sop = "clear"
        => /\ ~sraised
           /\ sfault = "none"
                 => /\ sret = TRUE
                    /\ rows = {}
                    /\ ListRecent(Cardinality(before.rows)) = {<<>>}
           /\ sret = FALSE => (sfault # "none" /\ rows = before.rows)

\* A clear of two or more rows during which a blob could not be removed.
C13_Witness ==
    /\ sop = "clear"
    /\ sret = TRUE
    /\ Cardinality(before.rows) >= 2
    /\ \E r \in before.rows : r.image_path \in files

\* C7: the ids returned by successful saves are positive and strictly
\* increasing in the order of the saves, across deletions and clears; the id
\* a successful save returns is the id of the row it added.
C7_IdsStrictlyIncrease ==
    /\ \A i \in 1..Len(returned) : returned[i] > 0
    /\ \A i, j \in 1..Len(returned) : i < j => returned[i] < returned[j]
    /\ (sop = "save" /\ sret # -1)
          => /\ sret = returned[Len(returned)]
             /\ RowWithId(sret) # {}
    /\ \A r \in rows : \E i \in 1..Len(returned) : returned[i] = r.id
    /\ \A r1, r2 \in rows : r1.id = r2.id => r1 = r2

\* A save after the rows of all earlier saves, the highest id included, were removed.
C7_Witness ==
    /\ sop = "save"
    /\ Len(returned) = 3
    /\ {r.id : r \in rows} = {sret}

(***************************************************************************)
(* SpecSearch: saves and searches                                          *)
(***************************************************************************)
MaxTermLen == 2

\* "A D" stands for a prompt like "A Dragon": upper case, a blank, two words.
SearchPrompts == {<<"A", " ", "D">>, <<"r">>}

SearchEnhanced == {NULL, <<"d", "a">>}

TermAlphabet == {"a", "d", "A", "_", "%"}

SearchTerms == UNION {[1..n -> TermAlphabet] : n \in 0..MaxTermLen}

NextSearch ==
    \/ \E prompt \in SearchPrompts, enhanced_prompt \in SearchEnhanced :
            save_generation(prompt, enhanced_prompt, NoPath, NoPath, NoMeta, FALSE)
    \/ \E search_term \in SearchTerms : search_generations(search_term, FALSE)
    \/ Tick

SpecSearch == Init /\ [][NextSearch]_vars

\* term occurs in text as a contiguous run of characters, ignoring letter case.
Contains(text, term) ==
    /\ text # NULL
    /\ \E i \in 0..(Len(text) - Len(term)) :
          \A j \in 1..Len(term) : Lower(text[i + j]) = Lower(term[j])

\* The rows of which term is a literal substring of prompt or enhanced_prompt.
LiteralMatches(term) ==
    {r \in rows : Contains(r.prompt, term) \/ Contains(r.enhanced_prompt, term)}

Returned(result) == {result[i] : i \in 1..Len(result)}

\* C8 (as claimed): a search for the empty term, and a search for a term
\* that is a substring of no prompt and of no enhanced prompt, return the
\* empty sequence, whatever the store holds.
C8_EmptyOrUnmatchedTermFindsNothing ==
    (sop = "search" /\ (sarg = <<>> \/ LiteralMatches(sarg) = {}))
        => sret = <<>>

\* C9 (as claimed): a search returns exactly the rows of which the term is,
\* ignoring case, a literal substring of prompt or of enhanced_prompt.
C9_SearchIsLiteralSubstringMatch ==
    sop = "search" => Returned(sret) = LiteralMatches(sarg)

(***************************************************************************)
(* SpecContext: saves and similar-context lookups                          *)
(***************************************************************************)
\* "d c" stands for "a dragon near a castle", "r" for "a red car".
ContextPrompts == {<<"d", " ", "c">>, <<"r">>, <<"a">>}

\* "R d c" stands for "red dragon castle"; " " is a prompt without words.
ContextQueries == {<<"R", " ", "d", " ", "c">>, <<"c">>, <<" ">>, <<"%">>}

NextContext ==
    \/ \E prompt \in ContextPrompts :
            save_generation(prompt, NULL, NoPath, NoPath, NoMeta, FALSE)
    \/ \E prompt \in ContextQueries : get_latest_context(prompt, FALSE)
    \/ Tick

SpecContext == Init /\ [][NextContext]_vars

\* The number of distinct keywords that occur in the prompt of row r.
KeywordScore(r, words) ==
    Cardinality({w \in words : Contains(LowerStr(r.prompt), w)})

\* The rows with the highest keyword score and, among those, the latest
\* creation time.
BestContext(words) ==
    {r \in rows :
        \A x \in rows :
            \/ KeywordScore(r, words) > KeywordScore(x, words)
            \/ /\ KeywordScore(r, words) = KeywordScore(x, words)
               /\ r.created_at >= x.created_at}

\* C10 (as claimed): the record get_latest_context returns matches the
\* largest number of distinct keywords of the prompt among all stored
\* records and, among the records that match as many, is the most recent.
C10_ContextMaximisesKeywordMatches ==
    (sop = "context" /\ sret # <<>>) => sret[1] \in BestContext(Words(sarg))

\* C21 (as claimed): a lookup returns None whenever the prompt of no stored
\* record contains a keyword of the input, which includes the empty store and
\* an input without words; it never raises.
C21_ContextIsNoneWithoutKeywordMatch ==
    sop = "context"
        => /\ ~sraised
           /\ (\A r \in rows : KeywordScore(r, Words(sarg)) = 0) => sret = <<>>

\* C22 (as claimed): an attempt that returns an empty response ends the
\* wrapper: no further attempt is issued and the operation returns None; an
\* attempt is followed by another only when it failed with the not-ready
\* signature.
C22_EmptyResponseIsTerminal ==
    /\ \A i \in 1..Len(calls) :
          calls[i] = "falsy"
             => /\ Len(calls) = i
                /\ pc = "done"
                /\ wrapped = PyNone
                /\ ret = PyNone
    /\ \A i \in 1..(Len(calls) - 1) : calls[i] = "not_ready"

(***************************************************************************)
(* SpecSteps: delete and clear followed statement by statement             *)
(***************************************************************************)
Idle == [pc |-> "idle", queue |-> <<>>, attempted |-> {}]

\* The rows of S in any order: a SELECT without ORDER BY.
AnyOrder(S) ==
    {s \in [1..Cardinality(S) -> S] :
        \A i, j \in 1..Cardinality(S) : i # j => s[i] # s[j]}

\* delete_generation: the files of the row on which os.remove is called; each
\* call has its own try block.
DeleteAttempts(r, rmFail) == {p \in {r.image_path, r.model_path} : Exists(p)}

\* clear_database: the files of the row on which os.remove is called; the
\* two calls share one try block, so that a failing removal of the image
\* skips the model.
ClearAttempts(r, rmFail) ==
    {p \in {r.image_path} : Exists(p)}
        \cup {p \in {r.model_path} :
                 Exists(p) /\ ~(Exists(r.image_path) /\ r.image_path \in rmFail)}

\* delete_generation up to "if result:".
select_row(generation_id) ==
    /\ step.pc = "idle"
    /\ sop' = "delete"
    /\ sarg' = generation_id
    /\ sfault' = "none"
    /\ before' = [rows |-> rows, files |-> files]
    /\ IF RowWithId(generation_id) = {}
       THEN /\ Returns(FALSE)
            /\ step' = Idle
       ELSE /\ step' = [pc |-> "files",
                        queue |-> <<CHOOSE r \in RowWithId(generation_id) : TRUE>>,
                        attempted |-> {}]
            /\ UNCHANGED <<sret, sraised>>
    /\ UNCHANGED <<rows, seq, now, files, returned>>
    /\ UNCHANGED callVars

\* clear_database up to file_paths = cursor.fetchall().
select_all ==
    /\ step.pc = "idle"
    /\ sop' = "clear"
    /\ sarg' = <<>>
    /\ sfault' = "none"
    /\ before' = [rows |-> rows, files |-> files]
    /\ \E file_paths \in AnyOrder(rows) :
          step' = [pc |-> IF rows = {} THEN "rows" ELSE "files",
                   queue |-> file_paths,
                   attempted |-> {}]
    /\ UNCHANGED <<rows, seq, now, files, returned, sret, sraised>>
    /\ UNCHANGED callVars

\* The removal of the files of one row; rmFail: the files whose os.remove
\* raises.
remove_files(rmFail) ==
    /\ step.pc = "files"
    /\ LET r == Head(step.queue)
           tried == IF sop = "delete"
                    THEN DeleteAttempts(r, rmFail)
                    ELSE ClearAttempts(r, rmFail)
       IN /\ files' = files \ (tried \ rmFail)
          /\ step' = [pc |-> IF Len(step.queue) = 1 THEN "rows" ELSE "files",
                      queue |-> Tail(step.queue),
                      attempted |-> step.attempted \cup tried]
    /\ UNCHANGED <<rows, seq, now, returned, sop, sarg, sret, sfault, sraised, before>>
    /\ UNCHANGED callVars

\* The DELETE statement and its commit; fault: the storage raises, and the
\* handler returns False.
delete_rows(fault) ==
    /\ step.pc = "rows"
    /\ IF fault
       THEN /\ Failed(FALSE)
            /\ sfault' = "delete"
            /\ step' = [step EXCEPT !.pc = "idle"]
            /\ UNCHANGED rows
       ELSE /\ rows' = IF sop = "delete" THEN rows \ RowWithId(sarg) ELSE {}
            /\ step' = [step EXCEPT !.pc = "cleanup"]
            /\ UNCHANGED <<sret, sraised, sfault>>
    /\ UNCHANGED <<seq, now, files, returned, sop, sarg, before>>
    /\ UNCHANGED callVars

\* The cleanup of the empty directories, and the return.
cleanup_dirs(dirFail) ==
    /\ step.pc = "cleanup"
    /\ Returns(CleanupReturn(dirFail))
    /\ step' = [step EXCEPT !.pc = "idle"]
    /\ UNCHANGED <<rows, seq, now, files, returned, sop, sarg, sfault, before>>
    /\ UNCHANGED callVars

\* The process dies inside the operation: what is on disk stays as it is.
crash ==
    /\ step.pc # "idle"
    /\ step' = [step EXCEPT !.pc = "idle"]
    /\ sfault' = "crash"
    /\ UNCHANGED <<rows, seq, now, files, returned, sop, sarg, sret, sraised, before>>
    /\ UNCHANGED callVars

NextSteps ==
    \/ \E image_path \in ImagePaths \cup {NoPath},
          model_path \in ModelPaths \cup {NoPath} :
            /\ step.pc = "idle"
            /\ save_generation(<<"a">>, NULL, image_path, model_path, NoMeta, FALSE)
    \/ \E path \in ImagePaths \cup ModelPaths :
            /\ step.pc = "idle"
            /\ WriteBlob(path)
    \/ \E generation_id \in 1..MaxId : select_row(generation_id)
    \/ select_all
    \/ \E rmFail \in SUBSET (ImagePaths \cup ModelPaths) : remove_files(rmFail)
    \/ \E fault \in BOOLEAN : delete_rows(fault)
    \/ \E dirFail \in BOOLEAN : cleanup_dirs(dirFail)
    \/ crash

SpecSteps == Init /\ [][NextSteps]_vars

\* The blobs of row r that existed when the latest operation started.
ExistingBlobs(r) ==
    {p \in {r.image_path, r.model_path} : p # NoPath /\ p \in before.files}

\* C23 (as claimed): at every point of a delete or a clear, a crash
\* included, each blob that existed of a record whose row is gone has had its
\* removal attempted.
C23_BlobsAttemptedBeforeRowRemoved ==
    sop \in {"delete", "clear"}
        => \A r \in before.rows \ rows : ExistingBlobs(r) \subseteq step.attempted

\* C24 (as claimed): once a clear is through with the files, it has
\* attempted the removal of every existing blob of every record, the model
\* of a record whose image could not be removed included.
C24_ClearAttemptsEveryBlob ==
    (sop = "clear" /\ step.pc \in {"rows", "cleanup"})
        => \A r \in before.rows : ExistingBlobs(r) \subseteq step.attempted

\* The status of row r when the files F exist.
StatusWith(r, F) ==
    IF r.model_path # NoPath /\ r.model_path \in F THEN "Complete"
    ELSE IF r.image_path # NoPath /\ r.image_path \in F THEN "Image Only"
    ELSE "Incomplete"

\* C25 (as claimed): a delete removes no blob that a record still in the
\* store refers to, so that the status of every other record is the one it
\* had before the delete.
C25_DeleteKeepsBlobsOfOtherRecords ==
    sop = "delete"
        => \A r \in {x \in rows : x.id # sarg} :
              /\ \A p \in {r.image_path, r.model_path} :
                    (p # NoPath /\ p \in before.files) => p \in files
              /\ StatusWith(r, files) = StatusWith(r, before.files)

\* C26 (as claimed): a delete that returns False has changed nothing: the
\* rows are the same and every blob that existed still exists.
C26_FailedDeleteHasNoEffect ==
    (sop = "delete" /\ sret = FALSE)
        => (rows = before.rows /\ before.files \subseteq files)

\* C27 (as claimed): a listing shows the records in the reverse of the order
\* in which they were saved, records saved within one second included, so
\* that a listing of one record shows the record saved last.
C27_ListOrderIsInsertionOrder ==
    (sop = "list" /\ sfault = "none")
        => /\ \A i, j \in 1..Len(sret) : i < j => sret[i].id > sret[j].id
           /\ (sarg = 1 /\ rows # {})
                 => sret[1].id = SetMax({r.id : r \in rows})

\* C28 (as claimed): the edit history of a stored id lists no record twice,
\* the originating record is none of its edits, and the entries, the first
\* included, are in non-decreasing creation time.
C28_LineageListsEachRecordOnce ==
    (sop = "lineage" /\ sfault = "none" /\ Target # {})
        => \A o \in Target :
              /\ o \notin EditsOf(o.prompt)
              /\ Len(sret) = Cardinality(EditsOf(o.prompt) \cup {o})
              /\ \A i, j \in 1..Len(sret) :
                    i < j => sret[i].timestamp <= sret[j].timestamp

====
